---- MODULE Spec2Model ----
(***************************************************************************)
(* Model of src/src/main.py: MmwaveKasa, a presence-triggered smart-plug   *)
(* controller.  One controller object, its control-loop task (self.task)   *)
(* and its delayed turn-off task (self.turn_off_task), scheduled by a      *)
(* single-threaded asyncio event loop: every action is the code that runs  *)
(* between two awaits, or one call of a synchronous method.                *)
(*                                                                         *)
(* Time is discrete, one Tick per second.  A task that is ready to run (a  *)
(* new task, an expired sleep, a requested cancellation) runs before the   *)
(* next Tick; a sensor read or a plug command in flight may take any       *)
(* number of Ticks, including none.                                        *)
(*                                                                         *)
(* Task.cancel() only requests the cancellation: CancelledError is thrown  *)
(* into the task at the await it is suspended at when the task next runs.  *)
(* CancelledError is a BaseException, so "except Exception" does not catch *)
(* it (lines 92, 105) and "except asyncio.CancelledError" does (line 117). *)
(***************************************************************************)
EXTENDS Integers, Sequences, FiniteSets, TLC

VARIABLES
    auto_start,   \* self.auto_start (line 24)
    sensor,       \* TRUE: self.sensor is a Sensor handle, FALSE: it is None (line 59)
    event,        \* the stop signal, event.is_set() (line 26)
    light_on,     \* self.light_on (line 27)
    taskSt,       \* self.task: "none", or the await the loop task is suspended at, or "done"
    taskTimer,    \* seconds left of the loop's asyncio.sleep(1) (line 108)
    taskCancel,   \* cancellation of self.task requested and not yet delivered
    orphans,      \* live loop tasks no longer referenced by self.task
    offSt,        \* self.turn_off_task: "none", the await it is suspended at, or "done"
    offTimer,     \* seconds left of the task's asyncio.sleep(10) (line 113)
    offCancel,    \* cancellation of self.turn_off_task requested and not yet delivered
    offOrphans,   \* live turn-off tasks no longer referenced by self.turn_off_task
    reading,      \* the last sensor read: "unread", the status returned, "missing", or "exc"
    kasa,         \* the last command handed to the plug and how the call ended
    stopped,      \* history: stop() was called and no loop was started since
    lossOpen,     \* history: a loss episode is open (no presence reading since it began)
    epAge,        \* history: seconds since the open/last loss episode began (saturating)
    epOff,        \* history: toggle-off commands issued in that episode (saturating)
    epFail,       \* history: a toggle-off of that episode failed or was cancelled
    epStop,       \* history: stop() was called during that episode
    rescued       \* history: presence was read again less than 10 s into that episode

loopVars == <<taskSt, taskTimer, taskCancel, orphans>>
offVars  == <<offSt, offTimer, offCancel, offOrphans>>
epVars   == <<lossOpen, epAge, epOff, epFail, epStop, rescued>>
vars == <<auto_start, sensor, event, light_on, taskSt, taskTimer, taskCancel,
          orphans, offSt, offTimer, offCancel, offOrphans, reading, kasa,
          stopped, lossOpen, epAge, epOff, epFail, epStop, rescued>>

----------------------------------------------------------------------------
(* Program constants and bounds *)

GracePeriod == 10

PollInterval == 1

MaxCount == 2

Min(a, b) == IF a < b THEN a ELSE b

Statuses == {"No Target", "Moving Target", "Static Target", "Moving and Static Targets"}

\* What get_readings() can return: a mapping with one of the statuses, or a
\* mapping without the detection_status key ("missing").
Readings == Statuses \cup {"missing"}

\* What reconfigure() can find under the auto_start attribute.
AutoStartInputs == {"absent", "true", "false"}

NoCmd == [cmd |-> "none", st |-> "none"]

Cmd(c, s) == [cmd |-> c, st |-> s]

TaskStates == {"none", "new", "read", "cmd_on", "sleep", "yield", "done"}

OffStates == {"none", "new", "sleep", "cmd_off", "done"}

TypeOK ==
    /\ auto_start \in BOOLEAN /\ sensor \in BOOLEAN /\ event \in BOOLEAN
    /\ light_on \in BOOLEAN
    /\ taskSt \in TaskStates /\ taskTimer \in 0..PollInterval /\ taskCancel \in BOOLEAN
    /\ offSt \in OffStates /\ offTimer \in 0..GracePeriod /\ offCancel \in BOOLEAN
    /\ orphans \in 0..MaxCount /\ offOrphans \in 0..MaxCount
    /\ reading \in Readings \cup {"unread", "exc"}
    /\ kasa \in [cmd : {"none", "toggle_on", "toggle_off"},
                 st : {"none", "sent", "ok", "fail", "cancelled"}]
    /\ stopped \in BOOLEAN /\ lossOpen \in BOOLEAN
    /\ epAge \in 0..(GracePeriod + 1) /\ epOff \in 0..MaxCount
    /\ epFail \in BOOLEAN /\ epStop \in BOOLEAN /\ rescued \in BOOLEAN

----------------------------------------------------------------------------
(* Pure helpers *)

\* readings.get("detection_status", "No Target")
DetectionStatus(r) == IF r = "missing" THEN "No Target" ELSE r

PresenceDetected(status) ==
    status \in {"Moving Target", "Moving and Static Targets", "Static Target"}

\* task is not None and not task.done()
Live(st) == st # "none" /\ st # "done"

\* the effect of Task.cancel() on the "cancellation requested" flag
CancelRequest(st, flag) == IF st = "done" THEN flag ELSE TRUE

----------------------------------------------------------------------------
(* Decisions of the code, one operator per condition or assignment *)

ShouldToggleOn_Always == TRUE

\* line 86: if not self.light_on
ShouldToggleOn == ~light_on

ShouldCancel_Never == FALSE

\* line 96: if self.turn_off_task and not self.turn_off_task.done()
ShouldCancel == Live(offSt)

ShouldSchedule_NoPendingCheck == light_on

\* line 101: if self.light_on and (not self.turn_off_task or self.turn_off_task.done())
ShouldSchedule == light_on /\ (offSt = "none" \/ offSt = "done")

CanStart_Always == TRUE

\* line 122: if self.task is None or self.task.done()
CanStart == taskSt = "none" \/ taskSt = "done"

\* line 91: self.light_on = True, reached when do_command returned
LightAfterOn == TRUE

LightAfterOnFail_Marked == TRUE

\* lines 92-93: the except branch logs and leaves self.light_on alone
LightAfterOnFail == light_on

LightAfterOff_Stale == light_on

\* line 116: self.light_on = False, reached when do_command returned
LightAfterOff == FALSE

LightAfterOffFail_Marked == FALSE

\* line 115 raising: line 116 is skipped, the exception ends the task
LightAfterOffFail == light_on

AfterReadFail_Abort == "done"

\* lines 105-108: "except Exception" catches the failed read, then sleep(1)
AfterReadFail == "sleep"

\* line 113: await asyncio.sleep(10)
OffSleep == GracePeriod

\* stop() without "self.turn_off_task.cancel()"
AfterStop_NoOffCancel(s) ==
    [event      |-> TRUE,
     taskSt     |-> s.taskSt,
     taskCancel |-> IF s.taskSt # "none"
                       THEN CancelRequest(s.taskSt, s.taskCancel) ELSE s.taskCancel,
     offSt      |-> s.offSt,
     offCancel  |-> s.offCancel,
     raised     |-> FALSE]

\* stop() without "self.task.cancel()"
AfterStop_NoTaskCancel(s) ==
    [event      |-> TRUE,
     taskSt     |-> s.taskSt,
     taskCancel |-> s.taskCancel,
     offSt      |-> s.offSt,
     offCancel  |-> IF s.offSt # "none"
                       THEN CancelRequest(s.offSt, s.offCancel) ELSE s.offCancel,
     raised     |-> FALSE]

\* stop() without the "is not None" tests: None.cancel() raises
AfterStop_NoNoneTest(s) ==
    [event      |-> TRUE,
     taskSt     |-> s.taskSt,
     taskCancel |-> CancelRequest(s.taskSt, s.taskCancel),
     offSt      |-> s.offSt,
     offCancel  |-> CancelRequest(s.offSt, s.offCancel),
     raised     |-> s.taskSt = "none" \/ s.offSt = "none"]

\* lines 126-132, stop(), on the fields it touches.  raised: stop() raised an
\* exception (cancel() called on None).
AfterStop(s) ==
    [event      |-> TRUE,
     taskSt     |-> s.taskSt,
     taskCancel |-> IF s.taskSt # "none"
                       THEN CancelRequest(s.taskSt, s.taskCancel) ELSE s.taskCancel,
     offSt      |-> s.offSt,
     offCancel  |-> IF s.offSt # "none"
                       THEN CancelRequest(s.offSt, s.offCancel) ELSE s.offCancel,
     raised     |-> FALSE]

\* the fields of the controller that stop() reads or writes
StopView ==
    [event |-> event, taskSt |-> taskSt, taskCancel |-> taskCancel,
     offSt |-> offSt, offCancel |-> offCancel, raised |-> FALSE]

----------------------------------------------------------------------------
(* Bookkeeping of loss episodes (history only) *)

\* A delayed turn-off task is created: a loss episode begins unless one is open.
EpisodeOnCreate ==
    IF lossOpen
    THEN UNCHANGED epVars
    ELSE /\ lossOpen' = TRUE /\ epAge' = 0 /\ epOff' = 0
         /\ epFail' = FALSE /\ epStop' = FALSE /\ rescued' = FALSE

\* A presence-detected reading: the open episode, if any, ends.
EpisodeOnPresence ==
    /\ lossOpen' = FALSE
    /\ rescued' = IF lossOpen /\ epAge < GracePeriod THEN TRUE ELSE rescued
    /\ UNCHANGED <<epAge, epOff, epFail, epStop>>

----------------------------------------------------------------------------
(* The code of on_loop between two awaits *)

\* line 103: self.turn_off_task = asyncio.create_task(self.delayed_turn_off())
CreateOff ==
    /\ offSt' = "new" /\ offTimer' = 0 /\ offCancel' = FALSE
    /\ offOrphans' = IF Live(offSt) THEN Min(offOrphans + 1, MaxCount) ELSE offOrphans
    /\ EpisodeOnCreate

\* lines 100-103: the no-presence branch
AbsenceBranch ==
    IF ShouldSchedule THEN CreateOff ELSE UNCHANGED <<offVars, epVars>>

\* lines 95-98: cancel a pending turn-off task
PresenceTail ==
    /\ offCancel' = IF ShouldCancel THEN CancelRequest(offSt, offCancel) ELSE offCancel
    /\ UNCHANGED <<offSt, offTimer, offOrphans>>

\* line 108: await asyncio.sleep(1)
GoSleep == taskSt' = "sleep" /\ taskTimer' = PollInterval

\* lines 76-83 from the top of on_loop's while: leave the loop when the stop
\* signal is set (control_loop then awaits sleep(0), line 138); else start an
\* iteration: await the sensor, or with no sensor classify {} at once.
LoopTop ==
    IF event
    THEN /\ taskSt' = "yield" /\ taskTimer' = 0
         /\ UNCHANGED <<reading, offVars, epVars>>
    ELSE IF sensor
    THEN /\ taskSt' = "read" /\ taskTimer' = 0
         /\ UNCHANGED <<reading, offVars, epVars>>
    ELSE /\ reading' = "missing"
         /\ AbsenceBranch
         /\ GoSleep

\* lines 134-137 from control_loop's while test
ControlTop ==
    IF event
    THEN /\ taskSt' = "done" /\ taskTimer' = 0
         /\ UNCHANGED <<reading, offVars, epVars>>
    ELSE LoopTop

\* first step of the loop task
TaskBegin ==
    /\ taskSt = "new" /\ ~taskCancel
    /\ ControlTop
    /\ UNCHANGED <<auto_start, sensor, event, light_on, taskCancel, orphans, kasa, stopped>>

\* line 108 returns: back to the while test of line 76
SleepWake ==
    /\ taskSt = "sleep" /\ taskTimer = 0 /\ ~taskCancel
    /\ LoopTop
    /\ UNCHANGED <<auto_start, sensor, event, light_on, taskCancel, orphans, kasa, stopped>>

\* line 138 returns: back to the while test of line 136
YieldWake ==
    /\ taskSt = "yield" /\ ~taskCancel
    /\ ControlTop
    /\ UNCHANGED <<auto_start, sensor, event, light_on, taskCancel, orphans, kasa, stopped>>

\* line 78 returns readings r: lines 79-108
ReadReturn ==
    /\ taskSt = "read" /\ ~taskCancel
    /\ \E r \in Readings :
         IF PresenceDetected(DetectionStatus(r))
         THEN /\ reading' = r
              /\ EpisodeOnPresence
              /\ IF ShouldToggleOn
                 THEN /\ taskSt' = "cmd_on" /\ taskTimer' = 0
                      /\ kasa' = Cmd("toggle_on", "sent")
                      /\ UNCHANGED offVars
                 ELSE /\ PresenceTail
                      /\ GoSleep
                      /\ UNCHANGED kasa
         ELSE /\ reading' = r
              /\ AbsenceBranch
              /\ GoSleep
              /\ UNCHANGED kasa
    /\ UNCHANGED <<auto_start, sensor, event, light_on, taskCancel, orphans, stopped>>

\* a failed read handled as an empty reading: lines 100-103 run
ReadFailBranch_Default == AbsenceBranch

\* line 78 raises inside the try of line 77: lines 79-103 are skipped
ReadFailBranch == UNCHANGED <<offVars, epVars>>

\* line 78 raises: lines 105-108
ReadFail ==
    /\ taskSt = "read" /\ ~taskCancel
    /\ reading' = "exc"
    /\ taskSt' = AfterReadFail
    /\ taskTimer' = IF AfterReadFail = "sleep" THEN PollInterval ELSE 0
    /\ ReadFailBranch
    /\ UNCHANGED <<auto_start, sensor, event, light_on, taskCancel, orphans, kasa,
                   stopped>>

\* line 89 returns: lines 90-91, 95-98, 108
CmdOnReturn ==
    /\ taskSt = "cmd_on" /\ ~taskCancel
    /\ kasa' = Cmd("toggle_on", "ok")
    /\ light_on' = LightAfterOn
    /\ PresenceTail
    /\ GoSleep
    /\ UNCHANGED <<auto_start, sensor, event, taskCancel, orphans, reading, stopped, epVars>>

\* line 89 raises: lines 92-93, 95-98, 108
CmdOnFail ==
    /\ taskSt = "cmd_on" /\ ~taskCancel
    /\ kasa' = Cmd("toggle_on", "fail")
    /\ light_on' = LightAfterOnFail
    /\ PresenceTail
    /\ GoSleep
    /\ UNCHANGED <<auto_start, sensor, event, taskCancel, orphans, reading, stopped, epVars>>

\* CancelledError thrown into the loop task at its await: nothing catches it
TaskCancelled ==
    /\ Live(taskSt) /\ taskCancel
    /\ taskSt' = "done" /\ taskTimer' = 0 /\ taskCancel' = FALSE
    /\ kasa' = IF taskSt = "cmd_on" THEN Cmd("toggle_on", "cancelled") ELSE kasa
    /\ UNCHANGED <<auto_start, sensor, event, light_on, orphans, reading, stopped,
                   offVars, epVars>>

----------------------------------------------------------------------------
(* delayed_turn_off, lines 110-118 *)

\* first step of the task: line 113, await asyncio.sleep(10)
OffBegin ==
    /\ offSt = "new" /\ ~offCancel
    /\ offSt' = "sleep" /\ offTimer' = OffSleep
    /\ UNCHANGED <<auto_start, sensor, event, light_on, loopVars, offCancel, offOrphans,
                   reading, kasa, stopped, epVars>>

\* line 113 returns: lines 114-115, the toggle-off command is handed to the plug
OffWake ==
    /\ offSt = "sleep" /\ offTimer = 0 /\ ~offCancel
    /\ offSt' = "cmd_off"
    /\ kasa' = Cmd("toggle_off", "sent")
    /\ epOff' = Min(epOff + 1, MaxCount)
    /\ UNCHANGED <<auto_start, sensor, event, light_on, loopVars, offTimer, offCancel,
                   offOrphans, reading, stopped, lossOpen, epAge, epFail, epStop, rescued>>

\* line 115 returns: line 116, the task ends
OffCmdReturn ==
    /\ offSt = "cmd_off" /\ ~offCancel
    /\ offSt' = "done"
    /\ kasa' = Cmd("toggle_off", "ok")
    /\ light_on' = LightAfterOff
    /\ UNCHANGED <<auto_start, sensor, event, loopVars, offTimer, offCancel, offOrphans,
                   reading, stopped, epVars>>

\* line 115 raises: only CancelledError is caught, the exception ends the task
OffCmdFail ==
    /\ offSt = "cmd_off" /\ ~offCancel
    /\ offSt' = "done"
    /\ kasa' = Cmd("toggle_off", "fail")
    /\ light_on' = LightAfterOffFail
    /\ epFail' = TRUE
    /\ UNCHANGED <<auto_start, sensor, event, loopVars, offTimer, offCancel, offOrphans,
                   reading, stopped, lossOpen, epAge, epOff, epStop, rescued>>

\* CancelledError thrown into the task at its await: lines 117-118
OffCancelled ==
    /\ Live(offSt) /\ offCancel
    /\ offSt' = "done" /\ offTimer' = 0 /\ offCancel' = FALSE
    /\ kasa' = IF offSt = "cmd_off" THEN Cmd("toggle_off", "cancelled") ELSE kasa
    /\ epFail' = IF offSt = "cmd_off" THEN TRUE ELSE epFail
    /\ UNCHANGED <<auto_start, sensor, event, light_on, loopVars, offOrphans, reading,
                   stopped, lossOpen, epAge, epOff, epStop, rescued>>

----------------------------------------------------------------------------
(* The synchronous methods *)

\* lines 120-124, start(), on the loop task and the stop signal
StartBody ==
    IF CanStart
    THEN /\ event' = FALSE
         /\ taskSt' = "new" /\ taskTimer' = 0 /\ taskCancel' = FALSE
         /\ orphans' = IF Live(taskSt) THEN Min(orphans + 1, MaxCount) ELSE orphans
         /\ stopped' = FALSE
    ELSE UNCHANGED <<event, loopVars, stopped>>

Start ==
    /\ StartBody
    /\ UNCHANGED <<auto_start, sensor, light_on, offVars, reading, kasa, epVars>>

\* lines 126-132, stop()
Stop ==
    /\ event' = AfterStop(StopView).event
    /\ taskSt' = AfterStop(StopView).taskSt
    /\ taskCancel' = AfterStop(StopView).taskCancel
    /\ offSt' = AfterStop(StopView).offSt
    /\ offCancel' = AfterStop(StopView).offCancel
    /\ stopped' = TRUE
    /\ epStop' = IF lossOpen THEN TRUE ELSE epStop
    /\ UNCHANGED <<auto_start, sensor, light_on, taskTimer, orphans, offTimer, offOrphans,
                   reading, kasa, lossOpen, epAge, epOff, epFail, rescued>>

\* lines 143-144, close()
Close == Stop

\* reconfigure() that also resets self.light_on
Reconfigure_ResetsLight ==
    \E a \in AutoStartInputs, s \in BOOLEAN :
        /\ auto_start' = IF a = "absent" THEN auto_start ELSE (a = "true")
        /\ sensor' = s
        /\ IF auto_start' THEN StartBody ELSE UNCHANGED <<event, loopVars, stopped>>
        /\ light_on' = FALSE
        /\ UNCHANGED <<offVars, reading, kasa, epVars>>

\* lines 48-70, reconfigure(): a is the auto_start attribute of the new
\* configuration, s whether the sensor dependency resolves to a handle
Reconfigure ==
    \E a \in AutoStartInputs, s \in BOOLEAN :
        /\ auto_start' = IF a = "absent" THEN auto_start ELSE (a = "true")
        /\ sensor' = s
        /\ IF auto_start' THEN StartBody ELSE UNCHANGED <<event, loopVars, stopped>>
        /\ UNCHANGED <<light_on, offVars, reading, kasa, epVars>>

\* line 26: event = Event() is a class attribute, one object shared by every
\* MmwaveKasa of the process.  stop() of another instance (line 128) sets it;
\* that instance cancels only its own tasks.
OtherStop ==
    /\ event' = TRUE
    /\ UNCHANGED <<auto_start, sensor, light_on, loopVars, offVars, reading, kasa,
                   stopped, epVars>>

\* start() of another instance whose loop is not running (line 123) clears it.
OtherStart ==
    /\ event' = FALSE
    /\ UNCHANGED <<auto_start, sensor, light_on, loopVars, offVars, reading, kasa,
                   stopped, epVars>>

----------------------------------------------------------------------------
(* Time *)

\* a task the event loop runs before it lets time pass
Ready ==
    \/ taskSt \in {"new", "yield"}
    \/ taskSt = "sleep" /\ taskTimer = 0
    \/ Live(taskSt) /\ taskCancel
    \/ offSt = "new"
    \/ offSt = "sleep" /\ offTimer = 0
    \/ Live(offSt) /\ offCancel

\* one second passes (lines 108, 113: the running sleeps count down)
Tick ==
    /\ ~Ready
    /\ taskTimer' = IF taskSt = "sleep" THEN taskTimer - 1 ELSE taskTimer
    /\ offTimer' = IF offSt = "sleep" THEN offTimer - 1 ELSE offTimer
    /\ epAge' = IF lossOpen THEN Min(epAge + 1, GracePeriod + 1) ELSE epAge
    /\ UNCHANGED <<auto_start, sensor, event, light_on, taskSt, taskCancel, orphans,
                   offSt, offCancel, offOrphans, reading, kasa, stopped, lossOpen,
                   epOff, epFail, epStop, rescued>>

----------------------------------------------------------------------------
(* Specification *)

\* The state after new() (lines 24-35): the class attributes, then the first
\* reconfigure() with the configuration's auto_start and sensor.
Init ==
    /\ auto_start \in BOOLEAN
    /\ sensor \in BOOLEAN
    /\ event = FALSE
    /\ light_on = FALSE
    /\ taskSt = IF auto_start THEN "new" ELSE "none"
    /\ taskTimer = 0 /\ taskCancel = FALSE /\ orphans = 0
    /\ offSt = "none" /\ offTimer = 0 /\ offCancel = FALSE /\ offOrphans = 0
    /\ reading = "unread"
    /\ kasa = NoCmd
    /\ stopped = FALSE
    /\ lossOpen = FALSE /\ epAge = 0 /\ epOff = 0
    /\ epFail = FALSE /\ epStop = FALSE /\ rescued = FALSE

Next ==
    \/ TaskBegin
    \/ SleepWake
    \/ YieldWake
    \/ ReadReturn
    \/ ReadFail
    \/ CmdOnReturn
    \/ CmdOnFail
    \/ TaskCancelled
    \/ OffBegin
    \/ OffWake
    \/ OffCmdReturn
    \/ OffCmdFail
    \/ OffCancelled
    \/ Start
    \/ Stop
    \/ Close
    \/ Reconfigure
    \/ OtherStop
    \/ OtherStart
    \/ Tick

Spec == Init /\ [][Next]_vars

\* The event loop runs every task that is ready: a requested cancellation is
\* delivered.
FairSpec == Spec /\ WF_vars(TaskCancelled) /\ WF_vars(OffCancelled)

----------------------------------------------------------------------------
(* Vocabulary of the properties *)

Detected == {"Moving Target", "Moving and Static Targets", "Static Target"}

OnSent  == Cmd("toggle_on", "sent")
OnOk    == Cmd("toggle_on", "ok")
OnFail  == Cmd("toggle_on", "fail")
OffSent == Cmd("toggle_off", "sent")
OffOk   == Cmd("toggle_off", "ok")
OffFail == Cmd("toggle_off", "fail")

\* this step is the loop task resuming from the sensor read (returned or raised)
ReadStep == taskSt = "read" /\ ~taskCancel /\ taskSt' # "read"

\* this step hands a toggle-on / a toggle-off command to the plug
IssuesOn == taskSt' = "cmd_on" /\ taskSt # "cmd_on"
IssuesOff == offSt' = "cmd_off" /\ offSt # "cmd_off"

\* this step creates a delayed turn-off task
CreatesOff == offSt' = "new" /\ offSt # "new"

\* control loop tasks alive
LoopsRunning == orphans + (IF Live(taskSt) THEN 1 ELSE 0)

----------------------------------------------------------------------------
(* Properties *)

\* C1: in a loss episode (from the creation of the delayed turn-off task to the
\* next presence-detected reading) without stop(): once more than the grace
\* period has passed a toggle-off command has been issued; as long as no
\* toggle-off failed, at most one was issued; and when it has succeeded
\* light_on is false.
C1_ToggleOffAfterGrace ==
    /\ (lossOpen /\ ~epStop /\ epAge > GracePeriod) => epOff >= 1
    /\ (lossOpen /\ ~epFail) => epOff <= 1
    /\ (lossOpen /\ kasa = OffOk) => ~light_on

C1_Witness ==
    /\ lossOpen /\ ~epStop /\ ~epFail /\ epAge > GracePeriod
    /\ epOff = 1 /\ kasa = OffOk /\ ~light_on /\ offSt = "done"

\* C2: when a presence-detected reading arrives less than the grace period
\* after the loss, no toggle-off command is issued for that episode, neither
\* before nor after the reading, and light_on stays true.
C2_PresenceWithinGrace ==
    rescued => (epOff = 0 /\ light_on /\ offSt # "cmd_off")

C2_Witness ==
    /\ rescued /\ epAge = 5 /\ ~epStop /\ offSt = "done" /\ light_on
    /\ kasa = OnOk /\ reading \in Detected

\* C3: a presence-detected reading while light_on is false issues a toggle-on
\* command, and no toggle-on command is issued while light_on is true.
C3_ToggleOnOncePerTransition ==
    /\ [][(ReadStep /\ reading' \in Detected /\ ~light_on)
            => (IssuesOn /\ kasa' = OnSent)]_vars
    /\ [][IssuesOn => ~light_on]_vars

C3_Witness ==
    /\ light_on /\ kasa = OnOk /\ taskSt = "sleep" /\ reading = "Static Target"
    /\ offSt = "none"

\* C4: at most one control loop task is alive, whatever start(), stop() and
\* reconfigure() calls were made.
C4_AtMostOneLoop == LoopsRunning <= 1

\* reconfigure() with auto_start true ran start() while the loop task was
\* suspended in the sensor read
C4_Witness ==
    /\ taskSt = "read" /\ ~taskCancel /\ sensor = FALSE /\ auto_start
    /\ LoopsRunning = 1

\* C5: once stop() (or close()) has been called and until a loop is started
\* again, every delayed turn-off task is finished or has its cancellation
\* requested, and no step hands a toggle-off command to the plug.
C5_NoToggleOffAfterStop ==
    /\ [](stopped => (~Live(offSt) \/ offCancel))
    /\ [][stopped => ~IssuesOff]_vars

\* stop() ran during a loss episode and the delayed turn-off task ended
\* without a toggle-off command
C5_Witness ==
    /\ stopped /\ lossOpen /\ epStop /\ epOff = 0 /\ offSt = "done" /\ light_on
    /\ taskSt = "done"

\* C6: after stop() (or close()) the control loop task and the delayed
\* turn-off task both finish, and until a loop is started again no delayed
\* turn-off task is created.
C6_TasksFinishAfterStop ==
    /\ stopped ~> ~Live(taskSt)
    /\ stopped ~> ~Live(offSt)
    /\ [][stopped => ~CreatesOff]_vars

\* stop() found both tasks alive and both have finished
C6_Witness ==
    /\ stopped /\ taskSt = "done" /\ offSt = "done" /\ lossOpen /\ epStop
    /\ epOff = 0 /\ ~taskCancel /\ ~offCancel

\* C7: a sensor read that raises leaves the loop task alive and asleep for the
\* poll interval; when that sleep ends with the stop signal clear the sensor
\* is read again; and a presence-detected reading that follows a failed read
\* while light_on is false issues a toggle-on command.
C7_ReadFailureKeepsPolling ==
    /\ [][(ReadStep /\ reading' = "exc")
            => (taskSt' = "sleep" /\ taskTimer' = PollInterval /\ ~taskCancel')]_vars
    /\ [][(taskSt = "sleep" /\ reading = "exc" /\ ~taskCancel /\ taskSt' # "sleep"
             /\ ~event /\ sensor) => taskSt' = "read"]_vars
    /\ [][(ReadStep /\ reading = "exc" /\ reading' \in Detected /\ ~light_on)
            => (IssuesOn /\ kasa' = OnSent)]_vars

\* the read failed and the loop is reading the sensor again
C7_Witness ==
    /\ taskSt = "read" /\ reading = "exc" /\ ~taskCancel /\ ~light_on /\ ~event

\* C8: a failed toggle-on command leaves light_on false and the loop task
\* asleep for the poll interval, and every following presence-detected reading
\* issues toggle-on again.
C8_ToggleOnFailureRetried ==
    /\ [](kasa = OnFail => ~light_on)
    /\ [][(taskSt = "cmd_on" /\ kasa' = OnFail)
            => (taskSt' = "sleep" /\ taskTimer' = PollInterval /\ ~taskCancel')]_vars
    /\ [][(kasa = OnFail /\ ReadStep /\ reading' \in Detected)
            => (IssuesOn /\ kasa' = OnSent)]_vars

\* toggle-on failed and the loop is reading the sensor again
C8_Witness ==
    /\ kasa = OnFail /\ taskSt = "read" /\ ~taskCancel /\ ~light_on
    /\ reading \in Detected

\* C9: a failed toggle-off command leaves light_on true and the loop task
\* untouched, and the next reading without presence creates a new delayed
\* turn-off task.
C9_ToggleOffFailureRetried ==
    /\ [](kasa = OffFail => light_on)
    /\ [][(offSt = "cmd_off" /\ kasa' = OffFail)
            => (offSt' = "done" /\ UNCHANGED loopVars)]_vars
    /\ [][(kasa = OffFail /\ offSt = "done" /\ ReadStep
             /\ reading' \in Readings \ Detected) => CreatesOff]_vars

\* the first toggle-off of the episode failed and a second one has been issued
C9_Witness ==
    /\ lossOpen /\ ~epStop /\ epFail /\ epOff = 2 /\ kasa = OffSent
    /\ offSt = "cmd_off" /\ light_on

\* C10: stop() raises nothing in any reachable state, and a second stop()
\* changes nothing: the stop signal is set and both tasks have their
\* cancellation requested after one call as after two.
C10_StopIdempotent ==
    /\ AfterStop(StopView).raised = FALSE
    /\ AfterStop(AfterStop(StopView)) = AfterStop(StopView)
    /\ AfterStop(StopView).event
    /\ Live(taskSt) => AfterStop(StopView).taskCancel
    /\ Live(offSt) => AfterStop(StopView).offCancel

\* stop() was called with no loop task and no delayed turn-off task
C10_Witness ==
    /\ stopped /\ taskSt = "none" /\ offSt = "none" /\ event
    /\ StopView = AfterStop(StopView)

\* C11: a reconfigure() step leaves light_on, the delayed turn-off task and
\* the plug alone; with the new auto_start true it runs start() (a loop task
\* is created when none is alive), with it false the loop task and the stop
\* signal are untouched; and while a loop task is alive it changes nothing of
\* it and one loop is running afterwards.
C11_ReconfigureFrame ==
    [][(Reconfigure \/ sensor' # sensor \/ auto_start' # auto_start)
         => /\ UNCHANGED <<light_on, offVars, kasa>>
            /\ (auto_start' /\ ~Live(taskSt)) => (taskSt' = "new" /\ ~event')
            /\ ~auto_start' => UNCHANGED <<loopVars, event>>
            /\ Live(taskSt) => (UNCHANGED loopVars /\ LoopsRunning' = 1)]_vars

\* reconfigure() unbound the sensor and set auto_start false while the loop
\* was in the sensor read, the light on and a delayed turn-off task asleep
C11_Witness ==
    /\ taskSt = "read" /\ ~taskCancel /\ sensor = FALSE /\ ~auto_start
    /\ light_on /\ offSt = "sleep" /\ ~offCancel /\ LoopsRunning = 1

\* delayed turn-off tasks alive
OffTasksRunning == offOrphans + (IF Live(offSt) THEN 1 ELSE 0)

\* C12: at most one delayed turn-off task is alive, and a step creates one
\* only when the handle is None or the previous task is done.
C12_AtMostOneOffTask ==
    /\ [](OffTasksRunning <= 1)
    /\ [][CreatesOff => (offSt = "none" \/ offSt = "done")]_vars

\* the previous task ended by a failed toggle-off and a new one is asleep
C12_Witness ==
    /\ lossOpen /\ epFail /\ ~epStop /\ epOff = 1 /\ offSt = "sleep"
    /\ kasa = OffFail /\ OffTasksRunning = 1

\* C13: a delayed turn-off task cancelled because presence was read again
\* (no stop() in the episode) ends without having handed a toggle-off command
\* to the plug.
C13_CancelledTaskIssuedNothing ==
    ~(kasa = Cmd("toggle_off", "cancelled") /\ ~epStop)

\* C14: whenever no plug command is in flight, light_on agrees with the last
\* command handed to the plug and not refused by it: true after toggle-on,
\* false after toggle-off.
C14_LightMatchesLastCommand ==
    kasa.st \in {"ok", "cancelled"} => (light_on <=> kasa.cmd = "toggle_on")

\* C15: an iteration that has begun (the loop task is in the sensor read or in
\* the toggle-on command) runs to its sleep: no step ends the task there.
C15_IterationNotInterrupted ==
    [][(taskSt \in {"read", "cmd_on"})
         => (taskSt' \in {"read", "cmd_on", "sleep"})]_vars

\* C16 as stated: a failed read with light_on true and no delayed turn-off
\* task pending schedules a delayed turn-off task in the same iteration.
C16_FailedReadSchedulesOff ==
    [][(ReadStep /\ reading' = "exc" /\ light_on /\ ~Live(offSt)) => CreatesOff]_vars

\* C16 amended: a failed read abandons the iteration: light_on, the delayed
\* turn-off task and the plug are untouched and the loop sleeps; the empty
\* reading, classified as no presence, is what an iteration without a bound
\* sensor uses, and that iteration schedules the delayed turn-off task when
\* light_on is true and none is pending.
C16_FailedReadSkipsIteration ==
    /\ [][(ReadStep /\ reading' = "exc")
            => (UNCHANGED <<light_on, offVars, kasa>> /\ taskSt' = "sleep")]_vars
    /\ [][(taskSt = "sleep" /\ taskTimer = 0 /\ taskTimer' = PollInterval)
            => /\ ~sensor /\ reading' = "missing"
               /\ (light_on /\ ~Live(offSt)) => CreatesOff]_vars

\* the read failed with the light on and no delayed turn-off task was created
C16_Witness ==
    /\ reading = "exc" /\ taskSt = "sleep" /\ taskTimer = PollInterval
    /\ light_on /\ offSt = "none" /\ kasa = OnOk

\* C17: a reading without presence while a delayed turn-off task is alive
\* changes nothing of that task; in an episode without stop() and without a
\* failed toggle-off the sleeping task's timer plus the age of the episode is
\* the grace period, and the toggle-off is issued, for the first time, when
\* the episode is exactly that old.
C17_GraceFromFirstLoss ==
    /\ [][(ReadStep /\ reading' \in Readings \ Detected /\ Live(offSt))
            => UNCHANGED offVars]_vars
    /\ []((lossOpen /\ ~epFail /\ ~epStop /\ offSt = "sleep")
            => offTimer + epAge = GracePeriod)
    /\ [][(IssuesOff /\ lossOpen /\ ~epFail /\ ~epStop)
            => (epAge = GracePeriod /\ epOff = 0)]_vars

\* ten seconds of "No Target" readings after the loss: the one toggle-off of
\* the episode has just been handed to the plug
C17_Witness ==
    /\ lossOpen /\ epAge = GracePeriod /\ epOff = 1 /\ ~epFail /\ ~epStop
    /\ kasa = OffSent /\ offSt = "cmd_off" /\ reading = "No Target" /\ taskSt = "sleep"

\* C18: in every state that follows a stop(), a start() called there leaves a
\* loop task alive and not cancelled, and the stop signal clear.
C18_StartAfterStopRuns ==
    stopped => ENABLED (Start /\ Live(taskSt') /\ ~taskCancel' /\ ~event')

\* C19: the loop task of this controller ends only by a cancellation that this
\* controller's own stop() requested.
C19_LoopEndsOnlyByOwnStop ==
    [][(Live(taskSt) /\ taskSt' = "done") => taskCancel]_vars

\* C20: toggle-on is issued only while light_on is false and toggle-off only
\* while it is true, a delayed turn-off task is created only while it is
\* true, and a command is never issued when the last command was the same
\* one and succeeded.
C20_CommandsAlternate ==
    /\ [][IssuesOn => (~light_on /\ kasa # OnOk)]_vars
    /\ [][IssuesOff => (light_on /\ kasa # OffOk)]_vars
    /\ [][CreatesOff => light_on]_vars

\* on, off, on: a toggle-on is in flight after the toggle-off of the last
\* episode succeeded
C20_Witness ==
    /\ taskSt = "cmd_on" /\ kasa = OnSent /\ ~light_on /\ epOff = 1 /\ ~epFail
    /\ ~lossOpen /\ offSt = "done"

====
